---- MODULE Spec2Model ----
(***************************************************************************)
(* The workout structure editor (component StructureWorkout): the document *)
(* the caller holds (prop `workout`), the memoised document the handlers   *)
(* start from (`workoutWithIds`), and the mutation handlers that deep-copy *)
(* workoutWithIds, edit the copy and hand it to onWorkoutChange.           *)
(*                                                                         *)
(* JavaScript values are modelled as follows.                              *)
(*   - an array is a sequence; index i of the code is position i+1;        *)
(*   - an array entry is a record with a field `kind`: "obj" for an        *)
(*     object, "null" for null/undefined, "hole" for an empty slot of a    *)
(*     sparse array;                                                       *)
(*   - an optional array property is [def, items]: def = FALSE when the    *)
(*     property is absent (undefined);                                     *)
(*   - an absent id is NoId (falsy), an absent index argument Undefined;   *)
(*   - an exercise carries the fields of the literal in addExercise; the   *)
(*     edits modelled change its name (the handlers treat the remaining    *)
(*     scalar fields exactly like name).                                   *)
(***************************************************************************)
EXTENDS Integers, Sequences, FiniteSets, TLC

VARIABLES workout, workoutWithIds, nextId, last, search

vars == <<workout, workoutWithIds, nextId, last, search>>

----------------------------------------------------------------------------
(* Bounds of the model *)

\* identifiers generateId hands out in one session
MaxId == 6
\* lengths of the block list, of a lane and of a block's superset list
MaxBlocks == 3
MaxLane == 2
MaxSupersets == 1
\* nodes of the caller's document that carry an edited field (name, label)
MaxEdited == 1
\* list entries that are null or a hole, in an emitted document
MaxNonNodes == 1

----------------------------------------------------------------------------
(* Values *)

NoId == 0
Undefined == 0 - 1
DefaultRest == 60

Null == [kind |-> "null"]
Hole == [kind |-> "hole"]

Absent == [def |-> FALSE, items |-> <<>>]
List(s) == [def |-> TRUE, items |-> s]

InitialName == "n0"
Names == {"n1"}
CustomLabel == <<"custom", 0>>
BlockLabel(n) == <<"Block", n>>

\* the values of the exercise literal of addExercise; a field that holds
\* null is "null", a key an object does not have is NoValue (Undefined for a
\* number)
DefaultSets == 3
DefaultReps == 10
DefaultRestSec == 60
NoValue == "<absent>"

Exercise(id, name) ==
  [kind |-> "obj", id |-> id, name |-> name,
   sets |-> DefaultSets, reps |-> DefaultReps, reps_range |-> "null",
   duration_sec |-> "null", rest_sec |-> DefaultRestSec, distance_m |-> "null",
   distance_range |-> "null", type |-> "strength", notes |-> "null"]
Superset(id, exercises, rest) ==
  [kind |-> "obj", id |-> id, exercises |-> exercises, rest_between_sec |-> rest]
Block(id, label, exercises, supersets) ==
  [kind |-> "obj", id |-> id, label |-> label,
   exercises |-> exercises, supersets |-> supersets]

IsObj(e) == e.kind = "obj"
Items(l) == IF l.def THEN l.items ELSE <<>>

----------------------------------------------------------------------------
(* JavaScript array operations *)

\* a[i]: undefined outside the array and on an empty slot
At(s, i) ==
  IF i >= 0 /\ i < Len(s)
  THEN (IF s[i + 1].kind = "hole" THEN Null ELSE s[i + 1])
  ELSE Null

\* a.splice(i, 1): the array afterwards (nothing is removed past the end)
SpliceOut(s, i) ==
  IF i >= 0 /\ i < Len(s)
  THEN [j \in 1..(Len(s) - 1) |-> IF j <= i THEN s[j] ELSE s[j + 1]]
  ELSE s

\* splice(i, 0, x) that ignores i and appends
SpliceInAtEnd(s, i, x) == Append(s, x)

\* splice that does not clamp its start index: past the end nothing is inserted
SpliceInDropping(s, i, x) ==
  IF i > Len(s) THEN s
  ELSE SubSeq(s, 1, i) \o <<x>> \o SubSeq(s, i + 1, Len(s))

\* a.splice(i, 0, x): the start index is clamped to the length
SpliceIn(s, i, x) ==
  LET at == IF i > Len(s) THEN Len(s) ELSE i
  IN  [j \in 1..(Len(s) + 1) |->
         IF j <= at THEN s[j] ELSE IF j = at + 1 THEN x ELSE s[j - 1]]

\* a[i] = x: writing past the end leaves empty slots in between
SetAt(s, i, x) ==
  LET n == IF i + 1 > Len(s) THEN i + 1 ELSE Len(s)
  IN  [j \in 1..n |-> IF j = i + 1 THEN x ELSE IF j <= Len(s) THEN s[j] ELSE Hole]

\* JSON.parse(JSON.stringify(x)): empty slots and undefined entries become null
CopyEntry(e) == IF e.kind = "hole" THEN Null ELSE e
CopyExercises(l) ==
  [def |-> l.def, items |-> [j \in 1..Len(l.items) |-> CopyEntry(l.items[j])]]
CopySuperset(ss) ==
  IF IsObj(ss) THEN [ss EXCEPT !.exercises = CopyExercises(@)] ELSE CopyEntry(ss)
CopySupersets(l) ==
  [def |-> l.def, items |-> [j \in 1..Len(l.items) |-> CopySuperset(l.items[j])]]
CopyBlock(b) ==
  IF IsObj(b)
  THEN [b EXCEPT !.exercises = CopyExercises(@), !.supersets = CopySupersets(@)]
  ELSE CopyEntry(b)
JSONCopy(doc) ==
  [blocks |-> [j \in 1..Len(doc.blocks) |-> CopyBlock(doc.blocks[j])]]

----------------------------------------------------------------------------
(* Results of a handler: the document handed to onWorkoutChange, if any *)

Emitted(doc, nid) == [outcome |-> "emitted", doc |-> doc, nid |-> nid]
NoCall(doc, nid) == [outcome |-> "none", doc |-> doc, nid |-> nid]
Threw(doc, nid) == [outcome |-> "threw", doc |-> doc, nid |-> nid]

\* the superset literal with another rest
NewSupersetNoRest(id) == Superset(id, List(<<>>), 0)

NewSuperset(id) == Superset(id, List(<<>>), DefaultRest)

----------------------------------------------------------------------------
(* handleBlockDrop *)

\* handleBlockDrop without the adjustment of the target index
HandleBlockDropUnadjusted(doc, nid, draggedIdx, targetIdx) ==
  IF draggedIdx = targetIdx THEN NoCall(doc, nid)
  ELSE
    LET newWorkout == JSONCopy(doc)
        draggedBlock == At(newWorkout.blocks, draggedIdx)
        removed == SpliceOut(newWorkout.blocks, draggedIdx)
    IN  Emitted([blocks |-> SpliceIn(removed, targetIdx, draggedBlock)], nid)

\* handleBlockDrop without the early return on equal indices
HandleBlockDropUnguarded(doc, nid, draggedIdx, targetIdx) ==
  LET newWorkout == JSONCopy(doc)
      draggedBlock == At(newWorkout.blocks, draggedIdx)
      removed == SpliceOut(newWorkout.blocks, draggedIdx)
      adjustedTargetIdx ==
        IF draggedIdx < targetIdx THEN targetIdx - 1 ELSE targetIdx
  IN  Emitted([blocks |-> SpliceIn(removed, adjustedTargetIdx, draggedBlock)], nid)

HandleBlockDrop(doc, nid, draggedIdx, targetIdx) ==
  IF draggedIdx = targetIdx THEN NoCall(doc, nid)
  ELSE
    LET newWorkout == JSONCopy(doc)
        draggedBlock == At(newWorkout.blocks, draggedIdx)
        removed == SpliceOut(newWorkout.blocks, draggedIdx)
        adjustedTargetIdx ==
          IF draggedIdx < targetIdx THEN targetIdx - 1 ELSE targetIdx
    IN  Emitted([blocks |-> SpliceIn(removed, adjustedTargetIdx, draggedBlock)], nid)

----------------------------------------------------------------------------
(* handleExerciseDrop *)

Item(b, e, s) == [blockIdx |-> b, exerciseIdx |-> e, supersetIdx |-> s]

\* RemoveDragged without the splice: the dragged exercise stays in its lane
RemoveDraggedKept(blocks, item) ==
  LET sb == At(blocks, item.blockIdx)
      failed == [ok |-> FALSE, blocks |-> blocks, dragged |-> Null]
  IN
  IF ~IsObj(sb) THEN failed
  ELSE IF item.supersetIdx # Undefined
  THEN
    IF ~sb.supersets.def THEN failed
    ELSE
      LET ss == At(sb.supersets.items, item.supersetIdx)
      IN  IF ~IsObj(ss) THEN failed
          ELSE IF ~ss.exercises.def THEN failed
          ELSE [ok |-> TRUE, blocks |-> blocks,
                dragged |-> At(ss.exercises.items, item.exerciseIdx)]
  ELSE [ok |-> TRUE, blocks |-> blocks,
        dragged |-> At(Items(sb.exercises), item.exerciseIdx)]

\* the removal step: [ok, blocks, dragged]; ok = FALSE when it throws a TypeError
RemoveDragged(blocks, item) ==
  LET sb == At(blocks, item.blockIdx)
      failed == [ok |-> FALSE, blocks |-> blocks, dragged |-> Null]
  IN
  IF ~IsObj(sb) THEN failed
  ELSE IF item.supersetIdx # Undefined
  THEN
    IF ~sb.supersets.def THEN failed
    ELSE
      LET ss == At(sb.supersets.items, item.supersetIdx)
      IN  IF ~IsObj(ss) THEN failed
          ELSE IF ~ss.exercises.def THEN failed
          ELSE
            LET ss2 == [ss EXCEPT !.exercises.items = SpliceOut(@, item.exerciseIdx)]
                sb2 == [sb EXCEPT !.supersets.items[item.supersetIdx + 1] = ss2]
            IN  [ok |-> TRUE,
                 blocks |-> [blocks EXCEPT ![item.blockIdx + 1] = sb2],
                 dragged |-> At(ss.exercises.items, item.exerciseIdx)]
  ELSE
    LET exs == Items(sb.exercises)
        sb2 == [sb EXCEPT !.exercises = List(SpliceOut(exs, item.exerciseIdx))]
    IN  [ok |-> TRUE,
         blocks |-> [blocks EXCEPT ![item.blockIdx + 1] = sb2],
         dragged |-> At(exs, item.exerciseIdx)]

\* the insertion step with unshift in place of splice: the dragged exercise
\* always comes first in the target lane
InsertDraggedFirst(blocks, nid, dragged, targetBlockIdx, targetExerciseIdx, targetSupersetIdx) ==
  LET tb == At(blocks, targetBlockIdx)
  IN
  IF ~IsObj(tb) THEN [ok |-> FALSE, blocks |-> blocks, nid |-> nid]
  ELSE IF targetSupersetIdx # Undefined
  THEN
    LET sups0 == Items(tb.supersets)
        create == ~IsObj(At(sups0, targetSupersetIdx))
        sups1 == IF create THEN SetAt(sups0, targetSupersetIdx, NewSuperset(nid)) ELSE sups0
        tss == sups1[targetSupersetIdx + 1]
        tss2 == [tss EXCEPT !.exercises = List(<<dragged>> \o Items(tss.exercises))]
        tb2 == [tb EXCEPT !.supersets = List(SetAt(sups1, targetSupersetIdx, tss2))]
    IN  [ok |-> TRUE,
         blocks |-> [blocks EXCEPT ![targetBlockIdx + 1] = tb2],
         nid |-> IF create THEN nid + 1 ELSE nid]
  ELSE
    LET tb2 == [tb EXCEPT !.exercises = List(<<dragged>> \o Items(tb.exercises))]
    IN  [ok |-> TRUE,
         blocks |-> [blocks EXCEPT ![targetBlockIdx + 1] = tb2],
         nid |-> nid]

\* the insertion step: [ok, blocks, nid]
InsertDragged(blocks, nid, dragged, targetBlockIdx, targetExerciseIdx, targetSupersetIdx) ==
  LET tb == At(blocks, targetBlockIdx)
  IN
  IF ~IsObj(tb) THEN [ok |-> FALSE, blocks |-> blocks, nid |-> nid]
  ELSE IF targetSupersetIdx # Undefined
  THEN
    LET sups0 == Items(tb.supersets)
        create == ~IsObj(At(sups0, targetSupersetIdx))
        sups1 == IF create THEN SetAt(sups0, targetSupersetIdx, NewSuperset(nid)) ELSE sups0
        tss == sups1[targetSupersetIdx + 1]
        tss2 == [tss EXCEPT
                   !.exercises = List(SpliceIn(Items(tss.exercises), targetExerciseIdx, dragged))]
        tb2 == [tb EXCEPT !.supersets = List(SetAt(sups1, targetSupersetIdx, tss2))]
    IN  [ok |-> TRUE,
         blocks |-> [blocks EXCEPT ![targetBlockIdx + 1] = tb2],
         nid |-> IF create THEN nid + 1 ELSE nid]
  ELSE
    LET tb2 == [tb EXCEPT
                  !.exercises = List(SpliceIn(Items(tb.exercises), targetExerciseIdx, dragged))]
    IN  [ok |-> TRUE,
         blocks |-> [blocks EXCEPT ![targetBlockIdx + 1] = tb2],
         nid |-> nid]

\* handleExerciseDrop without the insertion: the dragged exercise is in no lane
HandleExerciseDropLost(doc, nid, item, targetBlockIdx, targetExerciseIdx, targetSupersetIdx) ==
  LET newWorkout == JSONCopy(doc)
      rem == RemoveDragged(newWorkout.blocks, item)
  IN
  IF ~rem.ok THEN Threw(doc, nid)
  ELSE Emitted([blocks |-> rem.blocks], nid)

HandleExerciseDrop(doc, nid, item, targetBlockIdx, targetExerciseIdx, targetSupersetIdx) ==
  LET newWorkout == JSONCopy(doc)
      rem == RemoveDragged(newWorkout.blocks, item)
  IN
  IF ~rem.ok THEN Threw(doc, nid)
  ELSE
    LET ins == InsertDragged(rem.blocks, nid, rem.dragged,
                             targetBlockIdx, targetExerciseIdx, targetSupersetIdx)
    IN  IF ~ins.ok THEN Threw(doc, nid)
        ELSE Emitted([blocks |-> ins.blocks], ins.nid)

----------------------------------------------------------------------------
(* updateExercise, deleteExercise *)

\* Partial<Exercise>: a key the caller left out is Undefined / NoName
NoName == "<absent>"
Updates(id, name) == [id |-> id, name |-> name]
NameUpdate(v) == Updates(Undefined, v)
OtherUpdate == Updates(Undefined, NoName)

\* {}: an exercise object without any key
NoKeys ==
  [kind |-> "obj", id |-> NoId, name |-> NoName,
   sets |-> Undefined, reps |-> Undefined, reps_range |-> NoValue,
   duration_sec |-> NoValue, rest_sec |-> Undefined, distance_m |-> NoValue,
   distance_range |-> NoValue, type |-> NoValue, notes |-> NoValue]

\* { ...exercise, ...updates }: spreading undefined/null contributes nothing
MergeExercise(exercise, updates) ==
  LET base == IF IsObj(exercise) THEN exercise ELSE NoKeys
  IN  [base EXCEPT
         !.id = IF updates.id = Undefined THEN @ ELSE updates.id,
         !.name = IF updates.name = NoName THEN @ ELSE updates.name]

\* updateExercise that takes the exercise out of its lane and pushes the
\* merged one at the end
UpdateExerciseReappended(doc, nid, blockIdx, exerciseIdx, updates) ==
  LET newWorkout == JSONCopy(doc)
      b == At(newWorkout.blocks, blockIdx)
  IN
  IF ~IsObj(b) THEN Threw(doc, nid)
  ELSE IF ~b.exercises.def THEN Threw(doc, nid)
  ELSE
    LET exercise == At(b.exercises.items, exerciseIdx)
        b2 == [b EXCEPT !.exercises.items =
                 Append(SpliceOut(@, exerciseIdx), MergeExercise(exercise, updates))]
    IN  Emitted([blocks |-> [newWorkout.blocks EXCEPT ![blockIdx + 1] = b2]], nid)

UpdateExercise(doc, nid, blockIdx, exerciseIdx, updates) ==
  LET newWorkout == JSONCopy(doc)
      b == At(newWorkout.blocks, blockIdx)
  IN
  IF ~IsObj(b) THEN Threw(doc, nid)
  ELSE IF ~b.exercises.def THEN Threw(doc, nid)
  ELSE
    LET exercise == At(b.exercises.items, exerciseIdx)
        b2 == [b EXCEPT !.exercises.items =
                 SetAt(@, exerciseIdx, MergeExercise(exercise, updates))]
    IN  Emitted([blocks |-> [newWorkout.blocks EXCEPT ![blockIdx + 1] = b2]], nid)

\* deleteExercise that also drops the supersets left without exercises
DeleteExercisePruning(doc, nid, blockIdx, exerciseIdx) ==
  LET newWorkout == JSONCopy(doc)
      b == At(newWorkout.blocks, blockIdx)
  IN
  IF ~IsObj(b) THEN Threw(doc, nid)
  ELSE
    LET b2 == IF b.exercises.def
              THEN [b EXCEPT !.exercises.items = SpliceOut(@, exerciseIdx)]
              ELSE b
        b3 == IF b2.supersets.def
              THEN [b2 EXCEPT !.supersets.items =
                      SelectSeq(@, LAMBDA ss : ~IsObj(ss) \/ Items(ss.exercises) # <<>>)]
              ELSE b2
    IN  Emitted([blocks |-> [newWorkout.blocks EXCEPT ![blockIdx + 1] = b3]], nid)

DeleteExercise(doc, nid, blockIdx, exerciseIdx) ==
  LET newWorkout == JSONCopy(doc)
      b == At(newWorkout.blocks, blockIdx)
  IN
  IF ~IsObj(b) THEN Threw(doc, nid)
  ELSE
    LET b2 == IF b.exercises.def
              THEN [b EXCEPT !.exercises.items = SpliceOut(@, exerciseIdx)]
              ELSE b
    IN  Emitted([blocks |-> [newWorkout.blocks EXCEPT ![blockIdx + 1] = b2]], nid)

----------------------------------------------------------------------------
(* addExercise, addSuperset, deleteSuperset, addBlock, updateBlock *)

\* addExercise with unshift in place of push: the new exercise comes first
AddExerciseFirst(doc, nid, blockIdx, exerciseName, supersetIdx) ==
  LET newWorkout == JSONCopy(doc)
      newExercise == Exercise(nid, exerciseName)
      b == At(newWorkout.blocks, blockIdx)
  IN
  IF ~IsObj(b) THEN Threw(doc, nid)
  ELSE IF supersetIdx # Undefined
  THEN
    LET sups0 == Items(b.supersets)
        create == ~IsObj(At(sups0, supersetIdx))
        sups1 == IF create THEN SetAt(sups0, supersetIdx, NewSuperset(nid + 1)) ELSE sups0
        ss == sups1[supersetIdx + 1]
        ss2 == [ss EXCEPT !.exercises = List(<<newExercise>> \o Items(ss.exercises))]
        b2 == [b EXCEPT !.supersets = List(SetAt(sups1, supersetIdx, ss2))]
    IN  Emitted([blocks |-> [newWorkout.blocks EXCEPT ![blockIdx + 1] = b2]],
                IF create THEN nid + 2 ELSE nid + 1)
  ELSE
    LET b2 == [b EXCEPT !.exercises = List(<<newExercise>> \o Items(b.exercises))]
    IN  Emitted([blocks |-> [newWorkout.blocks EXCEPT ![blockIdx + 1] = b2]], nid + 1)

AddExercise(doc, nid, blockIdx, exerciseName, supersetIdx) ==
  LET newWorkout == JSONCopy(doc)
      newExercise == Exercise(nid, exerciseName)
      b == At(newWorkout.blocks, blockIdx)
  IN
  IF ~IsObj(b) THEN Threw(doc, nid)
  ELSE IF supersetIdx # Undefined
  THEN
    LET sups0 == Items(b.supersets)
        create == ~IsObj(At(sups0, supersetIdx))
        sups1 == IF create THEN SetAt(sups0, supersetIdx, NewSuperset(nid + 1)) ELSE sups0
        ss == sups1[supersetIdx + 1]
        ss2 == [ss EXCEPT !.exercises = List(Append(Items(ss.exercises), newExercise))]
        b2 == [b EXCEPT !.supersets = List(SetAt(sups1, supersetIdx, ss2))]
    IN  Emitted([blocks |-> [newWorkout.blocks EXCEPT ![blockIdx + 1] = b2]],
                IF create THEN nid + 2 ELSE nid + 1)
  ELSE
    LET b2 == [b EXCEPT !.exercises = List(Append(Items(b.exercises), newExercise))]
    IN  Emitted([blocks |-> [newWorkout.blocks EXCEPT ![blockIdx + 1] = b2]], nid + 1)

\* addSuperset with unshift in place of push: the new superset comes first
AddSupersetFirst(doc, nid, blockIdx) ==
  LET newWorkout == JSONCopy(doc)
      b == At(newWorkout.blocks, blockIdx)
  IN
  IF ~IsObj(b) THEN Threw(doc, nid)
  ELSE
    LET b2 == [b EXCEPT !.supersets = List(<<NewSuperset(nid)>> \o Items(b.supersets))]
    IN  Emitted([blocks |-> [newWorkout.blocks EXCEPT ![blockIdx + 1] = b2]], nid + 1)

AddSuperset(doc, nid, blockIdx) ==
  LET newWorkout == JSONCopy(doc)
      b == At(newWorkout.blocks, blockIdx)
  IN
  IF ~IsObj(b) THEN Threw(doc, nid)
  ELSE
    LET b2 == [b EXCEPT !.supersets = List(Append(Items(b.supersets), NewSuperset(nid)))]
    IN  Emitted([blocks |-> [newWorkout.blocks EXCEPT ![blockIdx + 1] = b2]], nid + 1)

\* deleteSuperset with pop in place of splice: the last superset goes
DeleteSupersetLast(doc, nid, blockIdx, supersetIdx) ==
  LET newWorkout == JSONCopy(doc)
      b == At(newWorkout.blocks, blockIdx)
  IN
  IF ~IsObj(b) THEN Threw(doc, nid)
  ELSE
    LET b2 == IF b.supersets.def
              THEN [b EXCEPT !.supersets.items = SpliceOut(@, Len(@) - 1)]
              ELSE b
    IN  Emitted([blocks |-> [newWorkout.blocks EXCEPT ![blockIdx + 1] = b2]], nid)

DeleteSuperset(doc, nid, blockIdx, supersetIdx) ==
  LET newWorkout == JSONCopy(doc)
      b == At(newWorkout.blocks, blockIdx)
  IN
  IF ~IsObj(b) THEN Threw(doc, nid)
  ELSE
    LET b2 == IF b.supersets.def
              THEN [b EXCEPT !.supersets.items = SpliceOut(@, supersetIdx)]
              ELSE b
    IN  Emitted([blocks |-> [newWorkout.blocks EXCEPT ![blockIdx + 1] = b2]], nid)

\* the new block has no supersets property
AddBlock(doc, nid) ==
  LET newWorkout == JSONCopy(doc)
      newBlock == Block(nid, BlockLabel(Len(doc.blocks) + 1), List(<<>>), Absent)
  IN  Emitted([blocks |-> Append(newWorkout.blocks, newBlock)], nid + 1)

\* Partial<Block> as the callers build it: { label }
LabelUpdate(v) == [label |-> v]

MergeBlock(block, updates) ==
  LET base == IF IsObj(block) THEN block ELSE Block(NoId, CustomLabel, Absent, Absent)
  IN  [base EXCEPT !.label = updates.label]

UpdateBlock(doc, nid, blockIdx, updates) ==
  LET newWorkout == JSONCopy(doc)
  IN  Emitted([blocks |-> SetAt(newWorkout.blocks, blockIdx,
                                MergeBlock(At(newWorkout.blocks, blockIdx), updates))], nid)

----------------------------------------------------------------------------
(* The render after onWorkoutChange: the useMemo that yields workoutWithIds *)

\* A string of the dependency list, as the sequence of its pieces: an id is
\* one piece, each separator character one (negative) piece.
Comma == <<0 - 1>>
Bar == <<0 - 2>>

RECURSIVE Join(_, _)
Join(strs, sep) ==
  IF Len(strs) = 0 THEN <<>>
  ELSE IF Len(strs) = 1 THEN strs[1]
  ELSE strs[1] \o sep \o Join(Tail(strs), sep)

\* e?.id || ''
IdStr(e) == IF IsObj(e) /\ e.id # NoId THEN <<e.id>> ELSE <<>>
IdsStr(items) == Join([j \in 1..Len(items) |-> IdStr(items[j])], Comma)

ExercisesKey(b) ==
  IF IsObj(b) /\ b.exercises.def THEN IdsStr(b.exercises.items) ELSE <<>>
SupersetsKey(b) ==
  IF IsObj(b) /\ b.supersets.def THEN IdsStr(b.supersets.items) ELSE <<>>
SupersetExercisesKey(b) ==
  IF IsObj(b) /\ b.supersets.def
  THEN Join([j \in 1..Len(b.supersets.items) |->
               ExercisesKey(b.supersets.items[j])], Bar)
  ELSE <<>>

\* the dependency list of the useMemo (title and source never change here)
Deps(w) ==
  << Len(w.blocks),
     IdsStr(w.blocks),
     Join([j \in 1..Len(w.blocks) |-> ExercisesKey(w.blocks[j])], Bar),
     Join([j \in 1..Len(w.blocks) |-> SupersetsKey(w.blocks[j])], Bar),
     Join([j \in 1..Len(w.blocks) |-> SupersetExercisesKey(w.blocks[j])], Bar \o Bar) >>

\* Array.prototype.every skips empty slots
EveryHasId(items) ==
  \A j \in 1..Len(items) :
    items[j].kind = "hole" \/ (IsObj(items[j]) /\ items[j].id # NoId)

\* hasAllIds that does not look into the supersets
hasAllIdsShallow(w) ==
  \A j \in 1..Len(w.blocks) :
    LET b == w.blocks[j]
    IN  \/ b.kind = "hole"
        \/ /\ IsObj(b)
           /\ b.id # NoId
           /\ b.exercises.def
           /\ EveryHasId(b.exercises.items)

hasAllIds(w) ==
  \A j \in 1..Len(w.blocks) :
    LET b == w.blocks[j]
    IN  \/ b.kind = "hole"
        \/ /\ IsObj(b)
           /\ b.id # NoId
           /\ b.exercises.def
           /\ EveryHasId(b.exercises.items)
           /\ \/ ~b.supersets.def
              \/ \A k \in 1..Len(b.supersets.items) :
                   LET ss == b.supersets.items[k]
                   IN  \/ ss.kind = "hole"
                       \/ /\ IsObj(ss)
                          /\ ss.id # NoId
                          /\ ss.exercises.def
                          /\ EveryHasId(ss.exercises.items)

\* generateId and addIdsToWorkout (lib/workout-utils): every node that lacks an
\* identifier gets the next unused one, in the order blocks, block-level
\* exercises, supersets, superset exercises; nothing else changes.
Missing(e) == IF IsObj(e) /\ e.id = NoId THEN 1 ELSE 0
MissingUpTo(items, n) == Cardinality({k \in 1..n : Missing(items[k]) = 1})
FillExercises(l, base) ==
  [def |-> l.def,
   items |-> [j \in 1..Len(l.items) |->
                IF Missing(l.items[j]) = 1
                THEN [l.items[j] EXCEPT !.id = base + MissingUpTo(l.items, j - 1)]
                ELSE l.items[j]]]
MissingInSuperset(ss) ==
  IF IsObj(ss) THEN Missing(ss) + MissingUpTo(ss.exercises.items, Len(ss.exercises.items))
  ELSE 0
RECURSIVE MissingInSupersets(_, _)
MissingInSupersets(items, n) ==
  IF n = 0 THEN 0
  ELSE MissingInSuperset(items[n]) + MissingInSupersets(items, n - 1)
FillSuperset(ss, base) ==
  IF ~IsObj(ss) THEN ss
  ELSE [ss EXCEPT !.id = IF @ = NoId THEN base ELSE @,
                  !.exercises = FillExercises(@, base + Missing(ss))]
MissingInBlock(b) ==
  IF IsObj(b)
  THEN Missing(b) + MissingUpTo(b.exercises.items, Len(b.exercises.items))
       + MissingInSupersets(b.supersets.items, Len(b.supersets.items))
  ELSE 0
RECURSIVE MissingInBlocks(_, _)
MissingInBlocks(blocks, n) ==
  IF n = 0 THEN 0 ELSE MissingInBlock(blocks[n]) + MissingInBlocks(blocks, n - 1)
FillBlock(b, base) ==
  IF ~IsObj(b) THEN b
  ELSE
    LET afterExercises ==
          base + Missing(b) + MissingUpTo(b.exercises.items, Len(b.exercises.items))
    IN  [b EXCEPT
           !.id = IF @ = NoId THEN base ELSE @,
           !.exercises = FillExercises(@, base + Missing(b)),
           !.supersets =
             [def |-> @.def,
              items |-> [j \in 1..Len(@.items) |->
                 FillSuperset(@.items[j],
                              afterExercises + MissingInSupersets(@.items, j - 1))]]]

addIdsToWorkout(w, nid) ==
  [doc |-> [blocks |-> [j \in 1..Len(w.blocks) |->
                          FillBlock(w.blocks[j], nid + MissingInBlocks(w.blocks, j - 1))]],
   nid |-> nid + MissingInBlocks(w.blocks, Len(w.blocks))]

\* the useMemo body without the fast path and with a rebuild that gives every
\* node a new identifier
NormalizeRenumbering(w, nid) ==
  LET Bare(items) ==
        [k \in 1..Len(items) |->
           IF IsObj(items[k]) THEN [items[k] EXCEPT !.id = NoId] ELSE items[k]]
      bare == [blocks |-> [j \in 1..Len(w.blocks) |->
                 IF ~IsObj(w.blocks[j]) THEN w.blocks[j]
                 ELSE [w.blocks[j] EXCEPT
                         !.id = NoId,
                         !.exercises.items = Bare(@),
                         !.supersets.items =
                           [k \in 1..Len(@) |->
                              IF ~IsObj(@[k]) THEN @[k]
                              ELSE [@[k] EXCEPT !.id = NoId,
                                                !.exercises.items = Bare(@)]]]]]
  IN  addIdsToWorkout(bare, nid)

\* the body of the useMemo: the prop itself when every node has an
\* identifier, else the prop rebuilt by addIdsToWorkout
Normalize(w, nid) ==
  IF hasAllIds(w) THEN [doc |-> w, nid |-> nid]
  ELSE addIdsToWorkout(w, nid)

\* workoutWithIds after the render with the new prop: recomputed only when
\* the dependency list changed
Render(newProp, oldProp, oldMemo, nid) ==
  IF Deps(newProp) = Deps(oldProp) THEN [doc |-> oldMemo, nid |-> nid]
  ELSE Normalize(newProp, nid)

----------------------------------------------------------------------------
(* Locations of a document *)

Lane(doc, b, s) ==
  LET blk == At(doc.blocks, b)
  IN  IF ~IsObj(blk) THEN <<>>
      ELSE IF s = Undefined THEN Items(blk.exercises)
      ELSE LET ss == At(Items(blk.supersets), s)
           IN  IF IsObj(ss) THEN Items(ss.exercises) ELSE <<>>

ObjIdxs(items) == {i \in 0..(Len(items) - 1) : IsObj(items[i + 1])}

Supersets(doc, b) ==
  LET blk == At(doc.blocks, b) IN IF IsObj(blk) THEN Items(blk.supersets) ELSE <<>>

LiveBlocks(doc) == ObjIdxs(doc.blocks)
LiveSupersets(doc, b) == ObjIdxs(Supersets(doc, b))
LaneIdxs(doc, b) == {Undefined} \cup LiveSupersets(doc, b)

\* the exercises a gesture can name: the ones the document holds
LiveExercises(doc) ==
  UNION {UNION {{Item(b, e, s) : e \in ObjIdxs(Lane(doc, b, s))} :
                  s \in LaneIdxs(doc, b)} :
           b \in LiveBlocks(doc)}

\* where an exercise may be dropped: a position of an existing lane, or the
\* first position of the superset after the last one
DropTargets(doc) ==
  UNION {UNION {{Item(b, e, s) : e \in 0..Len(Lane(doc, b, s))} :
                  s \in LaneIdxs(doc, b)}
           \cup {Item(b, 0, Len(Supersets(doc, b)))} :
           b \in LiveBlocks(doc)}

EditedIn(items) ==
  Cardinality({i \in ObjIdxs(items) : items[i + 1].name # InitialName})

\* nodes with a field that differs from its initial or default value
Edited(doc) ==
  LET RECURSIVE InBlocks(_)
      InBlocks(n) ==
        IF n = 0 THEN 0
        ELSE LET blk == doc.blocks[n]
                 RECURSIVE InSupersets(_)
                 InSupersets(k) ==
                   IF k = 0 THEN 0
                   ELSE (IF IsObj(blk.supersets.items[k])
                         THEN EditedIn(Items(blk.supersets.items[k].exercises))
                         ELSE 0) + InSupersets(k - 1)
             IN  (IF IsObj(blk)
                  THEN (IF blk.label = CustomLabel THEN 1 ELSE 0)
                       + EditedIn(Items(blk.exercises))
                       + InSupersets(Len(blk.supersets.items))
                  ELSE 0) + InBlocks(n - 1)
  IN  InBlocks(Len(doc.blocks))

NonNodesIn(items) == Len(items) - Cardinality(ObjIdxs(items))

\* list entries that are no node (null or a hole)
NonNodes(doc) ==
  LET RECURSIVE InBlocks(_)
      InBlocks(n) ==
        IF n = 0 THEN 0
        ELSE LET blk == doc.blocks[n]
                 RECURSIVE InSupersets(_)
                 InSupersets(k) ==
                   IF k = 0 THEN 0
                   ELSE (IF IsObj(blk.supersets.items[k])
                         THEN NonNodesIn(Items(blk.supersets.items[k].exercises))
                         ELSE 1) + InSupersets(k - 1)
             IN  (IF IsObj(blk)
                  THEN NonNodesIn(Items(blk.exercises))
                       + InSupersets(Len(blk.supersets.items))
                  ELSE 1) + InBlocks(n - 1)
  IN  InBlocks(Len(doc.blocks))

WithinBounds(doc) ==
  /\ Len(doc.blocks) <= MaxBlocks
  /\ \A b \in LiveBlocks(doc) :
       /\ Len(Lane(doc, b, Undefined)) <= MaxLane
       /\ Len(Supersets(doc, b)) <= MaxSupersets
       /\ \A s \in LiveSupersets(doc, b) : Len(Lane(doc, b, s)) <= MaxLane
  /\ Edited(doc) <= MaxEdited
  /\ NonNodes(doc) <= MaxNonNodes

----------------------------------------------------------------------------
(* The editor *)

\* the last gesture handled and what its handler did
Op(name, outcome) == [op |-> name, outcome |-> outcome]

InitialWorkout ==
  [blocks |-> <<
     Block(1, BlockLabel(1),
           List(<<Exercise(4, InitialName)>>),
           List(<<Superset(3, List(<<Exercise(5, InitialName)>>), 30)>>)),
     Block(2, BlockLabel(2), List(<<>>), Absent) >>]

\* showExerciseSearch, addingToBlock and addingToSuperset; a state that is
\* null is the empty set
SearchClosed == [show |-> FALSE, addingToBlock |-> {}, addingToSuperset |-> {}]

Init ==
  /\ workout = InitialWorkout
  /\ workoutWithIds = InitialWorkout
  /\ nextId = 6
  /\ last = Op("init", "none")
  /\ search = SearchClosed

\* A handler ran: when it called onWorkoutChange the caller stores the
\* document and the component renders with it as the new prop.
Called(name, res) ==
  /\ res.nid <= MaxId + 1
  /\ IF res.outcome = "emitted"
     THEN LET r == Render(res.doc, workout, workoutWithIds, res.nid)
          IN  /\ WithinBounds(res.doc)
              /\ r.nid <= MaxId + 1
              /\ workout' = res.doc
              /\ workoutWithIds' = r.doc
              /\ nextId' = r.nid
     ELSE UNCHANGED <<workout, workoutWithIds, nextId>>
  /\ last' = Op(name, res.outcome)

\* a handler that leaves the exercise search as it is
Handled(name, res) == Called(name, res) /\ UNCHANGED search

MoveBlockAt(i, j) ==
  Handled("MoveBlock", HandleBlockDrop(workoutWithIds, nextId, i, j))

MoveBlock ==
  \E i \in LiveBlocks(workoutWithIds), j \in LiveBlocks(workoutWithIds) :
    MoveBlockAt(i, j)

MoveExerciseAt(item, t) ==
  Handled("MoveExercise",
          HandleExerciseDrop(workoutWithIds, nextId, item,
                             t.blockIdx, t.exerciseIdx, t.supersetIdx))

MoveExercise ==
  \E item \in LiveExercises(workoutWithIds), t \in DropTargets(workoutWithIds) :
    MoveExerciseAt(item, t)

\* Edit Exercise dialog: onChange calls updateExercise(blockIdx, exerciseIdx,
\* updates, supersetIdx); updateExercise has three parameters
EditExerciseAt(item, updates) ==
  Handled("UpdateExercise",
          UpdateExercise(workoutWithIds, nextId, item.blockIdx, item.exerciseIdx, updates))

EditExercise ==
  \E item \in LiveExercises(workoutWithIds), v \in Names :
    EditExerciseAt(item, NameUpdate(v))

\* onDeleteExercise calls deleteExercise(blockIdx, exerciseIdx, supersetIdx);
\* deleteExercise has two parameters
ClickDeleteExerciseAt(item) ==
  Handled("DeleteExercise",
          DeleteExercise(workoutWithIds, nextId, item.blockIdx, item.exerciseIdx))

ClickDeleteExercise ==
  \E item \in LiveExercises(workoutWithIds) : ClickDeleteExerciseAt(item)

\* addExercise closes the exercise search after it handed the document over
SearchAfterAdd(res) == IF res.outcome = "threw" THEN search ELSE SearchClosed

CallAddExerciseAt(b, v, s) ==
  LET res == AddExercise(workoutWithIds, nextId, b, v, s)
  IN  Called("AddExercise", res) /\ search' = SearchAfterAdd(res)

CallAddExercise ==
  \E b \in LiveBlocks(workoutWithIds), v \in Names :
    \E s \in {Undefined} \cup (0..Len(Supersets(workoutWithIds, b))) :
      CallAddExerciseAt(b, v, s)

ClickAddSupersetAt(b) ==
  Handled("AddSuperset", AddSuperset(workoutWithIds, nextId, b))

ClickAddSuperset ==
  \E b \in LiveBlocks(workoutWithIds) : ClickAddSupersetAt(b)

ClickDeleteSupersetAt(b, s) ==
  Handled("DeleteSuperset", DeleteSuperset(workoutWithIds, nextId, b, s))

ClickDeleteSuperset ==
  \E b \in LiveBlocks(workoutWithIds) :
    \E s \in LiveSupersets(workoutWithIds, b) : ClickDeleteSupersetAt(b, s)

ClickAddBlock ==
  Handled("AddBlock", AddBlock(workoutWithIds, nextId))

\* DraggableBlock saveLabel: onUpdateBlock({ label: tempLabel })
SaveLabelAt(b, updates) ==
  Handled("UpdateBlock", UpdateBlock(workoutWithIds, nextId, b, updates))

SaveLabel ==
  \E b \in LiveBlocks(workoutWithIds) : SaveLabelAt(b, LabelUpdate(CustomLabel))

Next ==
  \/ MoveBlock
  \/ MoveExercise
  \/ EditExercise
  \/ ClickDeleteExercise
  \/ CallAddExercise
  \/ ClickAddSuperset
  \/ ClickDeleteSuperset
  \/ ClickAddBlock
  \/ SaveLabel

Spec == Init /\ [][Next]_vars

----------------------------------------------------------------------------
(* The handlers called with arbitrary indices: nothing in handleBlockDrop or
   handleExerciseDrop checks an index against the document, so a stale drag
   item or any other caller can pass one that names nothing. *)

AnyBlockIdx == 0..MaxBlocks
AnyItems ==
  {Item(b, e, s) : b \in AnyBlockIdx, e \in 0..MaxLane,
                   s \in {Undefined} \cup (0..MaxSupersets)}

CallMoveBlock ==
  \E i \in AnyBlockIdx, j \in AnyBlockIdx : MoveBlockAt(i, j)

CallMoveExercise ==
  \E item \in AnyItems, t \in DropTargets(workoutWithIds) :
    MoveExerciseAt(item, t)

CallDeleteExercise ==
  \E item \in AnyItems : ClickDeleteExerciseAt(item)

CallDeleteSuperset ==
  \E b \in AnyBlockIdx, s \in 0..MaxSupersets : ClickDeleteSupersetAt(b, s)

NextAny ==
  \/ CallMoveBlock
  \/ CallMoveExercise

SpecAny == Init /\ [][NextAny]_vars

\* the delete handlers called with arbitrary indices, on the documents that
\* moves and additions build
NextAnyDelete ==
  \/ MoveExercise
  \/ CallAddExercise
  \/ ClickAddSuperset
  \/ CallDeleteExercise
  \/ CallDeleteSuperset

SpecAnyDelete == Init /\ [][NextAnyDelete]_vars

----------------------------------------------------------------------------
(* Properties *)

\* where the nodes of a document are: a block, a superset of a block, an
\* exercise of a lane
BlockRefs(doc) == {<<"block", b, Undefined, Undefined>> : b \in LiveBlocks(doc)}
SupersetRefs(doc) ==
  UNION {{<<"superset", b, s, Undefined>> : s \in LiveSupersets(doc, b)} :
         b \in LiveBlocks(doc)}
ExerciseRefs(doc) ==
  {<<"exercise", x.blockIdx, x.supersetIdx, x.exerciseIdx>> : x \in LiveExercises(doc)}
NodeRefs(doc) == BlockRefs(doc) \cup SupersetRefs(doc) \cup ExerciseRefs(doc)

NodeAt(doc, ref) ==
  IF ref[1] = "block" THEN doc.blocks[ref[2] + 1]
  ELSE IF ref[1] = "superset" THEN Supersets(doc, ref[2])[ref[3] + 1]
  ELSE Lane(doc, ref[2], ref[3])[ref[4] + 1]

IdsOf(doc) == {NodeAt(doc, ref).id : ref \in NodeRefs(doc)} \ {NoId}

UniqueIds(doc) ==
  \A r1, r2 \in NodeRefs(doc) :
    (NodeAt(doc, r1).id = NodeAt(doc, r2).id /\ NodeAt(doc, r1).id # NoId)
      => r1 = r2

EntriesAreNodesWithIds(doc) ==
  /\ NonNodes(doc) = 0
  /\ \A ref \in NodeRefs(doc) : NodeAt(doc, ref).id # NoId

\* C2: after any sequence of operations every entry of every blocks,
\* supersets and exercises list of the document is a node that carries a
\* non-empty identifier: none is missing, null or without an id.
C2_EntriesAreNodesWithIds == EntriesAreNodesWithIds(workout)

\* how often each identifier (and the missing one) occurs among the exercises
ExerciseIdCount(doc) ==
  LET refs == ExerciseRefs(doc)
  IN  [i \in 0..(MaxId + 1) |->
         Cardinality({ref \in refs : NodeAt(doc, ref).id = i})]

InOneLaneEach(doc) ==
  LET refs == ExerciseRefs(doc)
  IN  \A r1, r2 \in refs :
        (NodeAt(doc, r1).id = NodeAt(doc, r2).id /\ NodeAt(doc, r1).id # NoId)
          => r1 = r2

\* C3: every exercise of the document is in exactly one lane after every
\* operation, and a move of an exercise leaves each exercise of the document
\* it was applied to in exactly one lane of the result, the moved one
\* included: never in two lanes, never in none.
C3_ExactlyOneLane ==
  [][ /\ InOneLaneEach(workout')
      /\ InOneLaneEach(workoutWithIds')
      /\ (last' = Op("MoveExercise", "emitted")
            => ExerciseIdCount(workout') = ExerciseIdCount(workoutWithIds)) ]_vars

\* an exercise has been moved out of block 0's own lane into another lane
C3_Witness ==
  /\ last = Op("MoveExercise", "emitted")
  /\ Lane(workout, 0, Undefined) = <<>>
  /\ \E x \in LiveExercises(workout) :
       /\ Lane(workout, x.blockIdx, x.supersetIdx)[x.exerciseIdx + 1].id = 4
       /\ x.supersetIdx # Undefined

ExerciseCount(doc) == Cardinality(ExerciseRefs(doc))

\* C4: MoveBlock, MoveExercise, UpdateBlock and UpdateExercise produce a
\* document with as many exercises, counted over all block-level and
\* superset lanes, as the document they were applied to.
C4_ExerciseCountKept ==
  [][ (last'.op \in {"MoveBlock", "MoveExercise", "UpdateBlock", "UpdateExercise"}
         /\ last'.outcome = "emitted")
        => ExerciseCount(workout') = ExerciseCount(workoutWithIds) ]_vars

\* the sequence s without its k-th entry (k counted from 1)
Without(s, k) ==
  [n \in 1..(Len(s) - 1) |-> IF n < k THEN s[n] ELSE s[n + 1]]

\* C5: for in-range indices i # j, MoveBlock(i, j) yields a block list of
\* the same length in which the block formerly at i is at position j when
\* i > j and at position j - 1 when i < j, and in which the other blocks
\* keep their relative order.
C5_MoveBlockPlaces ==
  [][ \A i, j \in 0..(Len(workoutWithIds.blocks) - 1) :
        (last'.op = "MoveBlock" /\ i # j /\ MoveBlockAt(i, j)) =>
          LET before == JSONCopy(workoutWithIds).blocks
              after == workout'.blocks
              p == IF i > j THEN j ELSE j - 1
          IN  /\ last'.outcome = "emitted"
              /\ Len(after) = Len(before)
              /\ after[p + 1] = before[i + 1]
              /\ Without(after, p + 1) = Without(before, i + 1) ]_vars

\* a block list of three after a move that brought the added block to the front
C5_Witness ==
  /\ last = Op("MoveBlock", "emitted")
  /\ Len(workout.blocks) = 3
  /\ workout.blocks[1].id = 6
  /\ workout.blocks[2].id = 1

InRange(s, i) == 0 <= i /\ i < Len(s)

\* C6: a MoveBlock whose source or target index lies outside the block list
\* is rejected with an error and hands no document to the caller.
C6_OutOfRangeRejected ==
  [][ \A i, j \in AnyBlockIdx :
        (/\ last'.op = "MoveBlock"
         /\ ~(InRange(workoutWithIds.blocks, i) /\ InRange(workoutWithIds.blocks, j))
         /\ MoveBlockAt(i, j))
          => (last'.outcome = "threw" /\ workout' = workout) ]_vars

\* the source of a move is an entry of a lane of the document
SourceInRange(doc, item) ==
  InRange(Lane(doc, item.blockIdx, item.supersetIdx), item.exerciseIdx)

\* C7: a MoveExercise whose source block, superset or exercise index is out
\* of range ends in an error and hands no document to the caller.
C7_MissingSourceRejected ==
  [][ \A item \in AnyItems, t \in DropTargets(workoutWithIds) :
        (/\ last'.op = "MoveExercise"
         /\ ~SourceInRange(workoutWithIds, item)
         /\ MoveExerciseAt(item, t))
          => (last'.outcome = "threw" /\ workout' = workout) ]_vars

\* C8: when the target block's superset list is empty, a MoveExercise with
\* target superset index 0 yields a block whose supersets[0] is a new
\* superset that holds exactly the moved exercise, has rest_between_sec = 60
\* and carries an identifier no node of the document had.
C8_LazySuperset ==
  [][ \A item \in LiveExercises(workoutWithIds), b \in LiveBlocks(workoutWithIds) :
        (/\ last'.op = "MoveExercise"
         /\ Supersets(workoutWithIds, b) = <<>>
         /\ MoveExerciseAt(item, Item(b, 0, 0)))
          =>
          LET moved == Lane(workoutWithIds, item.blockIdx, item.supersetIdx)[item.exerciseIdx + 1]
              sups == Supersets(workout', b)
          IN  /\ last'.outcome = "emitted"
              /\ Len(sups) = 1
              /\ IsObj(sups[1])
              /\ sups[1].exercises = List(<<moved>>)
              /\ sups[1].rest_between_sec = 60
              /\ sups[1].id # NoId
              /\ sups[1].id \notin IdsOf(workoutWithIds)
              /\ sups[1].id \notin IdsOf(workout) ]_vars

\* a move has materialized superset 0 of the second block around exercise 4
C8_Witness ==
  /\ last = Op("MoveExercise", "emitted")
  /\ Len(workout.blocks) = 2
  /\ workout.blocks[2].id = 2
  /\ workout.blocks[2].supersets = List(<<Superset(6, List(<<Exercise(4, InitialName)>>), 60)>>)

SameLane(x, y) == x.blockIdx = y.blockIdx /\ x.supersetIdx = y.supersetIdx

\* the move of the exercise at item to t, the render that follows, and the
\* move back from t to item
RoundTrip(doc, prop, nid, item, t) ==
  LET there == HandleExerciseDrop(doc, nid, item, t.blockIdx, t.exerciseIdx, t.supersetIdx)
      mid == Render(there.doc, prop, doc, there.nid)
  IN  HandleExerciseDrop(mid.doc, mid.nid, t,
                         item.blockIdx, item.exerciseIdx, item.supersetIdx)

\* doc with an empty superset appended to the superset list of block b
WithEmptySupersetAt(doc, b, result) ==
  LET ob == doc.blocks[b + 1]
      rb == result.blocks[b + 1]
      n == Len(Items(ob.supersets))
  IN  /\ Len(result.blocks) = Len(doc.blocks)
      /\ [result.blocks EXCEPT ![b + 1] = ob] = doc.blocks
      /\ [rb EXCEPT !.supersets = ob.supersets] = ob
      /\ rb.supersets.def
      /\ Len(rb.supersets.items) = n + 1
      /\ SubSeq(rb.supersets.items, 1, n) = Items(ob.supersets)
      /\ IsObj(rb.supersets.items[n + 1])
      /\ rb.supersets.items[n + 1].exercises = List(<<>>)

\* C9: moving an exercise from position a of lane A to position b of
\* another lane B and then back from position b of B to position a of A
\* yields the original document, as JSON reads it back, except for the empty
\* superset left at B when B was created by the first move.
C9_RoundTrip ==
  \A item \in LiveExercises(workoutWithIds), t \in DropTargets(workoutWithIds) :
    ~SameLane(item, t) =>
      LET original == JSONCopy(workoutWithIds)
          back == RoundTrip(workoutWithIds, workout, nextId, item, t)
      IN  /\ back.outcome = "emitted"
          /\ IF t.supersetIdx \in LaneIdxs(workoutWithIds, t.blockIdx)
             THEN back.doc = original
             ELSE WithEmptySupersetAt(original, t.blockIdx, back.doc)

\* exercise 4 went to a superset created for it in the second block and came
\* back: the document is the initial one plus the empty superset
C9_Witness ==
  /\ last = Op("MoveExercise", "emitted")
  /\ nextId = 7
  /\ workout = [blocks |-> << InitialWorkout.blocks[1],
                              [InitialWorkout.blocks[2] EXCEPT
                                 !.supersets = List(<<Superset(6, List(<<>>), 60)>>)] >>]

\* C10: a MoveExercise whose target is the lane and index of its source is
\* a no-op: nothing is removed and reinserted and no document is handed to
\* the caller.
C10_SelfMoveIsNoOp ==
  [][ \A item \in LiveExercises(workoutWithIds) :
        (last'.op = "MoveExercise" /\ MoveExerciseAt(item, item))
          => (last'.outcome = "none" /\ UNCHANGED <<workout, workoutWithIds>>) ]_vars

\* doc with the lane (b, s) replaced by items
SetLane(doc, b, s, items) ==
  IF s = Undefined
  THEN [doc EXCEPT !.blocks[b + 1].exercises = List(items)]
  ELSE [doc EXCEPT !.blocks[b + 1].supersets.items[s + 1].exercises = List(items)]

\* doc without the exercise that item names
WithoutExercise(doc, item) ==
  SetLane(doc, item.blockIdx, item.supersetIdx,
          Without(Lane(doc, item.blockIdx, item.supersetIdx), item.exerciseIdx + 1))

\* C11: DeleteExercise(blockIndex, exerciseIndex, supersetIndex?) removes
\* exactly the exercise at exerciseIndex of the lane it names (the superset's
\* lane when a supersetIndex is given) and leaves every other lane, the
\* block's own lane included, as it was.
C11_DeleteFromResolvedLane ==
  [][ \A item \in LiveExercises(workoutWithIds) :
        (last'.op = "DeleteExercise" /\ ClickDeleteExerciseAt(item))
          => /\ last'.outcome = "emitted"
             /\ workout' = WithoutExercise(JSONCopy(workoutWithIds), item) ]_vars

\* deleteExercise called a second time with the indices of the first call,
\* after the render that follows the first: [first, input, second]
DeleteTwice(doc, prop, nid, blockIdx, exerciseIdx) ==
  LET first == DeleteExercise(doc, nid, blockIdx, exerciseIdx)
      mid == Render(first.doc, prop, doc, first.nid)
  IN  [first |-> first, input |-> mid.doc,
       second |-> DeleteExercise(mid.doc, mid.nid, blockIdx, exerciseIdx)]

\* C12: a second DeleteExercise with the same indices, applied to the
\* output of the first, does not throw and leaves the document unchanged.
C12_SecondDeleteChangesNothing ==
  \A item \in LiveExercises(workoutWithIds) :
    LET twice == DeleteTwice(workoutWithIds, workout, nextId,
                             item.blockIdx, item.exerciseIdx)
    IN  /\ twice.second.outcome # "threw"
        /\ twice.second.doc = JSONCopy(twice.input)

\* C13: a DeleteExercise or DeleteSuperset whose target does not exist (a
\* block, superset or exercise index out of range, an empty or absent lane)
\* raises no error and yields a document equal to its input.
C13_MissingTargetTolerated ==
  [][ /\ \A item \in AnyItems :
           (/\ last'.op = "DeleteExercise"
            /\ ~SourceInRange(workoutWithIds, item)
            /\ ClickDeleteExerciseAt(item))
             => /\ last'.outcome # "threw"
                /\ last'.outcome = "emitted" => workout' = JSONCopy(workoutWithIds)
      /\ \A b \in AnyBlockIdx, s \in 0..MaxSupersets :
           (/\ last'.op = "DeleteSuperset"
            /\ ~InRange(Supersets(workoutWithIds, b), s)
            /\ ClickDeleteSupersetAt(b, s))
             => /\ last'.outcome # "threw"
                /\ last'.outcome = "emitted" => workout' = JSONCopy(workoutWithIds) ]_vars

\* C14: AddExercise(blockIndex, name, supersetIndex?) adds exactly one
\* exercise, last in the lane it names, with the given name, an identifier
\* no node of the document had, sets 3, reps 10, rest_sec 60, type
\* 'strength' and null in every other field; the exercises the document
\* held keep their lane and position.
C14_AddExerciseAppends ==
  \A b \in LiveBlocks(workoutWithIds), v \in Names :
    \A s \in {Undefined} \cup (0..Len(Supersets(workoutWithIds, b))) :
      LET before == JSONCopy(workoutWithIds)
          res == AddExercise(workoutWithIds, nextId, b, v, s)
          lane == Lane(res.doc, b, s)
          n == Len(lane)
          new == lane[n]
          others == SetLane(res.doc, b, s, SubSeq(lane, 1, n - 1))
      IN  /\ res.outcome = "emitted"
          /\ n = Len(Lane(before, b, s)) + 1
          /\ ExerciseCount(res.doc) = ExerciseCount(before) + 1
          /\ IsObj(new)
          /\ new.name = v
          /\ new.id # NoId
          /\ new.id \notin IdsOf(workoutWithIds) \cup IdsOf(workout)
          /\ new.sets = 3 /\ new.reps = 10 /\ new.rest_sec = 60
          /\ new.type = "strength"
          /\ new.reps_range = "null" /\ new.duration_sec = "null"
          /\ new.distance_m = "null" /\ new.distance_range = "null"
          /\ new.notes = "null"
          /\ IF s \in LaneIdxs(workoutWithIds, b)
             THEN others = before
             ELSE WithEmptySupersetAt(before, b, others)

\* an exercise was added behind exercise 5 in superset 0 of the first block
C14_Witness ==
  /\ last = Op("AddExercise", "emitted")
  /\ Lane(workout, 0, 0) = <<Exercise(5, InitialName), Exercise(6, "n1")>>

\* C15: AddBlock on a document with n blocks yields n + 1 blocks: the first
\* n unchanged, the last with an identifier no node had, the label
\* "Block n+1" whatever the other labels are, an empty exercises list and an
\* empty supersets list.
C15_AddBlockAppendsEmptyBlock ==
  [][ last'.op = "AddBlock" =>
        LET before == JSONCopy(workoutWithIds).blocks
            n == Len(before)
            new == workout'.blocks[n + 1]
        IN  /\ last'.outcome = "emitted"
            /\ Len(workout'.blocks) = n + 1
            /\ SubSeq(workout'.blocks, 1, n) = before
            /\ IsObj(new)
            /\ new.id # NoId
            /\ new.id \notin IdsOf(workoutWithIds) \cup IdsOf(workout)
            /\ new.label = <<"Block", n + 1>>
            /\ new.exercises = List(<<>>)
            /\ new.supersets = List(<<>>) ]_vars

\* C16: UpdateExercise and UpdateBlock change the named fields of the one
\* node they are aimed at and nothing else: its identifier and other fields
\* and every other block, superset and exercise keep their values.
C16_UpdateTouchesOnlyTarget ==
  [][ /\ \A item \in LiveExercises(workoutWithIds), v \in Names :
           (last'.op = "UpdateExercise" /\ EditExerciseAt(item, NameUpdate(v))) =>
             LET before == JSONCopy(workoutWithIds)
                 lane == Lane(before, item.blockIdx, item.supersetIdx)
             IN  /\ last'.outcome = "emitted"
                 /\ workout' = SetLane(before, item.blockIdx, item.supersetIdx,
                                       [lane EXCEPT ![item.exerciseIdx + 1].name = v])
      /\ \A b \in LiveBlocks(workoutWithIds) :
           (last'.op = "UpdateBlock" /\ SaveLabelAt(b, LabelUpdate(CustomLabel))) =>
             /\ last'.outcome = "emitted"
             /\ workout' = [JSONCopy(workoutWithIds) EXCEPT
                              !.blocks[b + 1].label = CustomLabel] ]_vars

\* the supersets of a document, each named by its block's and its own id
SupersetsOf(doc) ==
  {<<doc.blocks[r[2] + 1].id, NodeAt(doc, r).id>> : r \in SupersetRefs(doc)}

\* the supersets of a document that hold no exercise
EmptySupersetsOf(doc) ==
  {<<doc.blocks[r[2] + 1].id, NodeAt(doc, r).id>> :
     r \in {q \in SupersetRefs(doc) : Items(NodeAt(doc, q).exercises) = <<>>}}

\* C17: an empty superset is never removed implicitly: a step that is not
\* DeleteSuperset keeps every superset of the document in its block, the
\* ones left without exercises included, and DeleteSuperset removes no
\* superset other than the one it names.
C17_SupersetsKept ==
  [][ /\ last'.op # "DeleteSuperset" =>
           (SupersetsOf(workout) \cup SupersetsOf(workoutWithIds)) \subseteq SupersetsOf(workout')
      /\ \A b \in LiveBlocks(workoutWithIds) :
           \A s \in LiveSupersets(workoutWithIds, b) :
             (last'.op = "DeleteSuperset" /\ ClickDeleteSupersetAt(b, s)) =>
               (SupersetsOf(workoutWithIds)
                  \ {<<workoutWithIds.blocks[b + 1].id, Supersets(workoutWithIds, b)[s + 1].id>>})
                 \subseteq SupersetsOf(workout') ]_vars

\* a superset emptied by moving its last exercise away is still there after
\* a later deletion of an exercise
C17_Witness ==
  /\ last = Op("DeleteExercise", "emitted")
  /\ EmptySupersetsOf(workout) # {}

\* the identifiers of the nodes of a list, in list order
IdSeqOf(items) ==
  LET nodes == SelectSeq(items, LAMBDA e : IsObj(e) /\ e.id # NoId)
  IN  [i \in 1..Len(nodes) |-> nodes[i].id]

IdSetOf(ids) == {ids[i] : i \in DOMAIN ids}

\* the elements two lists share, the ones in skip aside, come in the same order
SameOrder(a, b, skip) ==
  LET shared == (IdSetOf(a) \cap IdSetOf(b)) \ skip
  IN  SelectSeq(a, LAMBDA x : x \in shared) = SelectSeq(b, LAMBDA x : x \in shared)

IndexOfId(items, id) ==
  CHOOSE i \in ObjIdxs(items) : items[i + 1].id = id

\* every block both documents hold keeps the order of its supersets, of its
\* own exercises and of the exercises of each superset it keeps
OrderInsideBlocksKept(before, after, skip) ==
  \A id \in IdSetOf(IdSeqOf(before.blocks)) \cap IdSetOf(IdSeqOf(after.blocks)) :
    LET b1 == IndexOfId(before.blocks, id)
        b2 == IndexOfId(after.blocks, id)
        sups1 == Supersets(before, b1)
        sups2 == Supersets(after, b2)
    IN  /\ SameOrder(IdSeqOf(sups1), IdSeqOf(sups2), {})
        /\ SameOrder(IdSeqOf(Lane(before, b1, Undefined)),
                     IdSeqOf(Lane(after, b2, Undefined)), skip)
        /\ \A sid \in IdSetOf(IdSeqOf(sups1)) \cap IdSetOf(IdSeqOf(sups2)) :
             SameOrder(IdSeqOf(Lane(before, b1, IndexOfId(sups1, sid))),
                       IdSeqOf(Lane(after, b2, IndexOfId(sups2, sid))), skip)

BlockOrderKept(before, after) ==
  SameOrder(IdSeqOf(before.blocks), IdSeqOf(after.blocks), {})

C20_SelfMoveBlockIsNoOp ==
  [][ \A i \in LiveBlocks(workoutWithIds) :
        (last'.op = "MoveBlock" /\ MoveBlockAt(i, i)) =>
          /\ last'.outcome = "none"
          /\ UNCHANGED <<workout, workoutWithIds, nextId>> ]_vars

\* a block was dropped and no document was handed to the caller
C20_Witness ==
  /\ last = Op("MoveBlock", "none")
  /\ Len(workout.blocks) >= 2

\* the document after Add Superset was clicked twice on block b
WithTwoMoreSupersets(doc, nid, b) ==
  AddSuperset(AddSuperset(doc, nid, b).doc, nid + 1, b).doc

\* C21: DeleteSuperset(blockIndex, supersetIndex) with an existing index
\* removes exactly that superset together with the exercises of its lane;
\* the other supersets of the block keep their content and relative order,
\* and the block-level lane and all other blocks are unchanged. Checked on
\* every document the editor holds and on the same document after two more
\* supersets were added to the block.
C21_DeleteSupersetRemovesOne ==
  \A b \in LiveBlocks(workoutWithIds) :
    \A doc \in {workoutWithIds, WithTwoMoreSupersets(workoutWithIds, nextId, b)} :
      \A s \in LiveSupersets(doc, b) :
        LET res == DeleteSuperset(doc, nextId + 2, b, s)
            before == JSONCopy(doc)
            gone == Supersets(before, b)[s + 1]
        IN  /\ res.outcome = "emitted"
            /\ res.doc = [before EXCEPT !.blocks[b + 1].supersets.items = Without(@, s + 1)]
            /\ IdSeqOf(Supersets(res.doc, b)) = Without(IdSeqOf(Supersets(before, b)), s + 1)
            /\ IdsOf(res.doc) =
                 IdsOf(before) \ ({gone.id} \cup IdSetOf(IdSeqOf(Items(gone.exercises))))
            /\ Lane(res.doc, b, Undefined) = Lane(before, b, Undefined)

\* the superset of the first block was deleted with its exercise; the block's
\* own exercise is still there
C21_Witness ==
  /\ last = Op("DeleteSuperset", "emitted")
  /\ IdSeqOf(Lane(workout, 0, Undefined)) = <<4>>
  /\ IdSeqOf(Supersets(workout, 0)) = <<>>
  /\ 5 \notin IdsOf(workout)

\* C22: AddSuperset(blockIndex) appends exactly one new superset as the last
\* element of the block's superset list, with an empty exercise lane and an
\* identifier no node of the document has, and changes nothing else. Checked
\* on every document the editor holds and on the same document after one
\* more superset was added to the block.
C22_AddSupersetAppends ==
  \A b \in LiveBlocks(workoutWithIds) :
    \A given \in {[doc |-> workoutWithIds, nid |-> nextId],
                  [doc |-> AddSuperset(workoutWithIds, nextId, b).doc, nid |-> nextId + 1]} :
      LET res == AddSuperset(given.doc, given.nid, b)
          before == JSONCopy(given.doc)
          sups == Supersets(res.doc, b)
          new == sups[Len(sups)]
      IN  /\ res.outcome = "emitted"
          /\ Len(sups) = Len(Supersets(before, b)) + 1
          /\ IsObj(new)
          /\ new.exercises = List(<<>>)
          /\ new.id # NoId
          /\ new.id \notin IdsOf(given.doc) \cup IdsOf(workout)
          /\ SubSeq(sups, 1, Len(sups) - 1) = Supersets(before, b)
          /\ [res.doc EXCEPT !.blocks[b + 1].supersets = before.blocks[b + 1].supersets]
               = before

\* Add Superset was clicked on the second block, which had no superset list
C22_Witness ==
  /\ last = Op("AddSuperset", "emitted")
  /\ Supersets(workout, 1) = <<NewSuperset(6)>>
  /\ IdSeqOf(Supersets(workout, 0)) = <<3>>

----------------------------------------------------------------------------
(* The normalizer on documents of any provenance: the component is mounted
   with a document some of whose nodes lack an identifier, and the caller
   passes the normalized document back as the prop *)

\* documents as upstream ingestion may deliver them, identifiers still in place
IngestedDocs ==
  { InitialWorkout,
    [blocks |-> <<
       Block(1, BlockLabel(1),
             List(<<Exercise(2, InitialName), Null>>),
             List(<<Superset(3, List(<<Exercise(4, InitialName),
                                       Exercise(5, "n1")>>), 30)>>)) >>],
    [blocks |-> <<
       Block(1, BlockLabel(1), Absent,
             List(<<Superset(2, List(<<Exercise(3, InitialName)>>), 30)>>)),
       Block(4, CustomLabel, List(<<Exercise(5, InitialName)>>), List(<<>>)) >>] }

\* the document with the identifiers of the nodes in refs taken away
EraseIds(doc, refs) ==
  LET EraseIn(items, b, s) ==
        [k \in 1..Len(items) |->
           IF IsObj(items[k]) /\ <<"exercise", b, s, k - 1>> \in refs
           THEN [items[k] EXCEPT !.id = NoId] ELSE items[k]]
      EraseSuperset(ss, b, s) ==
        IF ~IsObj(ss) THEN ss
        ELSE [ss EXCEPT
                !.id = IF <<"superset", b, s, Undefined>> \in refs THEN NoId ELSE @,
                !.exercises.items = EraseIn(@, b, s)]
      EraseBlock(blk, b) ==
        IF ~IsObj(blk) THEN blk
        ELSE [blk EXCEPT
                !.id = IF <<"block", b, Undefined, Undefined>> \in refs THEN NoId ELSE @,
                !.exercises.items = EraseIn(@, b, Undefined),
                !.supersets.items =
                  [k \in 1..Len(@) |-> EraseSuperset(@[k], b, k - 1)]]
  IN  [blocks |-> [j \in 1..Len(doc.blocks) |-> EraseBlock(doc.blocks[j], j - 1)]]

NormalizerInputs ==
  UNION {{EraseIds(doc, refs) : refs \in SUBSET NodeRefs(doc)} : doc \in IngestedDocs}

NoMissingIds(doc) == \A r \in NodeRefs(doc) : NodeAt(doc, r).id # NoId

InitNormalize ==
  /\ workout \in NormalizerInputs
  /\ workoutWithIds = workout
  /\ nextId = 6
  /\ last = Op("init", "none")
  /\ search = SearchClosed

\* the outcome of a pass of the normalizer: the prop returned as it is, or rebuilt
Pass(w) == IF hasAllIds(w) THEN "fast" ELSE "rebuilt"

\* mount: the useMemo runs on the prop
Mount ==
  /\ last.op = "init"
  /\ LET r == Normalize(workout, nextId)
     IN  /\ workoutWithIds' = r.doc
         /\ nextId' = r.nid
  /\ last' = Op("Normalize", Pass(workout))
  /\ UNCHANGED <<workout, search>>

\* the caller passes the normalized document back and the useMemo runs again
PassBack ==
  /\ last.op = "Normalize"
  /\ workout' = workoutWithIds
  /\ LET r == Normalize(workoutWithIds, nextId)
     IN  /\ workoutWithIds' = r.doc
         /\ nextId' = r.nid
  /\ last' = Op("Renormalize", Pass(workoutWithIds))
  /\ UNCHANGED search

NextNormalize == Mount \/ PassBack

SpecNormalize == InitNormalize /\ [][NextNormalize]_vars

\* C23: normalization is idempotent: normalizing an already normalized
\* document yields a document deep-equal to it; no identifier is reassigned,
\* none is allocated and no field changes on the second pass.
C23_NormalizeIdempotent ==
  LET once == Normalize(workout, nextId)
      twice == Normalize(once.doc, once.nid)
  IN  /\ twice.doc = once.doc
      /\ twice.nid = once.nid

\* a document ingested without any identifier was normalized and passed back
C23_Witness ==
  /\ last.op = "Renormalize"
  /\ workout = workoutWithIds
  /\ nextId = 11
  /\ NoMissingIds(workout)

\* C24: the fast path of the normalizer returns the prop untouched only
\* when no block, superset or exercise anywhere in it lacks an identifier;
\* when an identifier is missing anywhere the fast path is not taken and
\* the document is rebuilt with the identifiers filled in.
C24_FastPathOnlyWhenComplete ==
  LET r == Normalize(workout, nextId)
  IN  /\ hasAllIds(workout) => (NoMissingIds(workout) /\ r.doc = workout /\ r.nid = nextId)
      /\ ~NoMissingIds(workout) =>
           /\ ~hasAllIds(workout)
           /\ r.doc # workout
           /\ NoMissingIds(r.doc)
           /\ EraseIds(r.doc, NodeRefs(r.doc)) = EraseIds(workout, NodeRefs(workout))

\* a document whose only missing identifier is that of a superset's exercise
\* was rebuilt on mount
C24_Witness ==
  /\ last = Op("Normalize", "rebuilt")
  /\ workout = EraseIds(InitialWorkout, {<<"exercise", 0, 0, 0>>})
  /\ NoMissingIds(workoutWithIds)

\* C25: the caller stores every document handed to onWorkoutChange and
\* passes it back as the prop, so the document the next operation starts
\* from is the most recently produced one, edits of field values included.
C25_StartsFromLatest ==
  NoMissingIds(workout) => workoutWithIds = workout

\* C26: UpdateExercise given a supersetIndex merges the fields onto the
\* exercise at exerciseIndex of that superset's lane and leaves the block's
\* own lane unchanged; given no supersetIndex it merges them onto the
\* exercise at exerciseIndex of the block's own lane.
C26_UpdateInResolvedLane ==
  [][ \A item \in LiveExercises(workoutWithIds), v \in Names :
        (last'.op = "UpdateExercise" /\ EditExerciseAt(item, NameUpdate(v))) =>
          LET before == JSONCopy(workoutWithIds)
              target == Lane(before, item.blockIdx, item.supersetIdx)[item.exerciseIdx + 1]
              after == Lane(workout', item.blockIdx, item.supersetIdx)
          IN  /\ last'.outcome = "emitted"
              /\ Len(after) > item.exerciseIdx
              /\ after[item.exerciseIdx + 1] = [target EXCEPT !.name = v]
              /\ item.supersetIdx # Undefined =>
                   Lane(workout', item.blockIdx, Undefined)
                     = Lane(before, item.blockIdx, Undefined) ]_vars

\* s with x put in front of its element at index k (counted from 0)
InsertedAt(s, k, x) == SubSeq(s, 1, k) \o <<x>> \o SubSeq(s, k + 1, Len(s))

\* C27: a MoveExercise between two different existing lanes, with a target
\* index from 0 to the length of the target lane, puts the moved exercise at
\* exactly that index of the target lane, leaves the source lane with only
\* that exercise removed, and leaves every other lane unchanged.
C27_MoveBetweenLanes ==
  [][ \A item \in LiveExercises(workoutWithIds), t \in DropTargets(workoutWithIds) :
        (/\ last'.op = "MoveExercise"
         /\ t.supersetIdx \in LaneIdxs(workoutWithIds, t.blockIdx)
         /\ ~SameLane(item, t)
         /\ MoveExerciseAt(item, t)) =>
          LET before == JSONCopy(workoutWithIds)
              source == Lane(before, item.blockIdx, item.supersetIdx)
              target == Lane(before, t.blockIdx, t.supersetIdx)
              moved == source[item.exerciseIdx + 1]
          IN  /\ last'.outcome = "emitted"
              /\ Lane(workout', t.blockIdx, t.supersetIdx)[t.exerciseIdx + 1] = moved
              /\ workout' =
                   SetLane(SetLane(before, item.blockIdx, item.supersetIdx,
                                   Without(source, item.exerciseIdx + 1)),
                           t.blockIdx, t.supersetIdx,
                           InsertedAt(target, t.exerciseIdx, moved)) ]_vars

\* the block's own exercise was moved behind the exercise of its superset
C27_Witness ==
  /\ last = Op("MoveExercise", "emitted")
  /\ IdSeqOf(Lane(workout, 0, 0)) = <<5, 4>>
  /\ Lane(workout, 0, Undefined) = <<>>

\* the superset list of block b grew by exactly one element and every slot
\* of it holds a superset
GrewByOneSuperset(before, after, b) ==
  LET sups == Supersets(after, b)
  IN  /\ Len(sups) = Len(Supersets(before, b)) + 1
      /\ \A k \in 1..Len(sups) : IsObj(sups[k])

\* C28: lazy materialization by MoveExercise or AddExercise creates exactly
\* one superset: when the supersetIndex given does not exist in the target
\* block, an index greater than the number of supersets included, the
\* block's superset list grows by exactly one element and has no empty or
\* undefined slot afterwards.
C28_MaterializesOneSuperset ==
  \A b \in LiveBlocks(workoutWithIds) :
    LET sups == Supersets(workoutWithIds, b)
    IN  (\A k \in 1..Len(sups) : IsObj(sups[k])) =>
          \A s \in Len(sups)..(Len(sups) + 1) :
            /\ \A v \in Names :
                 LET res == AddExercise(workoutWithIds, nextId, b, v, s)
                 IN  /\ res.outcome = "emitted"
                     /\ GrewByOneSuperset(workoutWithIds, res.doc, b)
            /\ \A item \in LiveExercises(workoutWithIds) :
                 LET res == HandleExerciseDrop(workoutWithIds, nextId, item, b, 0, s)
                 IN  /\ res.outcome = "emitted"
                     /\ GrewByOneSuperset(workoutWithIds, res.doc, b)

\* C29: dropping an exercise on the drop zone of the lane it already belongs
\* to (target index = the length of the lane before the removal) keeps the
\* length of the lane, places the dragged exercise last in it and keeps the
\* relative order of the other exercises; nothing else changes.
C29_DropOnOwnLaneMovesLast ==
  [][ \A item \in LiveExercises(workoutWithIds) :
        LET before == JSONCopy(workoutWithIds)
            lane == Lane(before, item.blockIdx, item.supersetIdx)
            zone == Item(item.blockIdx, Len(lane), item.supersetIdx)
        IN  (last'.op = "MoveExercise" /\ MoveExerciseAt(item, zone)) =>
              LET after == Lane(workout', item.blockIdx, item.supersetIdx)
              IN  /\ last'.outcome = "emitted"
                  /\ Len(after) = Len(lane)
                  /\ after[Len(after)] = lane[item.exerciseIdx + 1]
                  /\ SubSeq(after, 1, Len(after) - 1) = Without(lane, item.exerciseIdx + 1)
                  /\ workout' = SetLane(before, item.blockIdx, item.supersetIdx, after) ]_vars

\* the first of the two exercises of the block's own lane was dropped on the
\* lane's drop zone
C29_Witness ==
  /\ last = Op("MoveExercise", "emitted")
  /\ IdSeqOf(Lane(workout, 0, Undefined)) = <<5, 4>>
  /\ Lane(workout, 0, 0) = <<>>

----------------------------------------------------------------------------
(* The exercise search: Add Exercise and Add Exercise to Superset open it,
   selecting a name in it adds the exercise *)

\* Add Exercise of block b
ClickAddExercise ==
  \E b \in LiveBlocks(workoutWithIds) :
    /\ search' = [show |-> TRUE, addingToBlock |-> {b}, addingToSuperset |-> {}]
    /\ last' = Op("OpenSearch", "none")
    /\ UNCHANGED <<workout, workoutWithIds, nextId>>

\* Add Exercise to Superset, of superset k of block b
ClickAddExerciseToSuperset ==
  \E b \in LiveBlocks(workoutWithIds) :
    \E k \in LiveSupersets(workoutWithIds, b) :
      /\ search' = [show |-> TRUE, addingToBlock |-> {b},
                    addingToSuperset |-> {[blockIdx |-> b, supersetIdx |-> k]}]
      /\ last' = Op("OpenSearchForSuperset", "none")
      /\ UNCHANGED <<workout, workoutWithIds, nextId>>

\* ExerciseSearch onSelect: addExercise(addingToBlock, exerciseName)
SelectExercise ==
  /\ search.show
  /\ \E b \in search.addingToBlock, v \in Names :
       LET res == AddExercise(workoutWithIds, nextId, b, v, Undefined)
       IN  Called("AddExercise", res) /\ search' = SearchAfterAdd(res)

\* ExerciseSearch onClose: addingToSuperset is not reset
CloseSearch ==
  /\ search.show
  /\ search' = [search EXCEPT !.show = FALSE, !.addingToBlock = {}]
  /\ last' = Op("CloseSearch", "none")
  /\ UNCHANGED <<workout, workoutWithIds, nextId>>

NextSearch ==
  \/ ClickAddExercise
  \/ ClickAddExerciseToSuperset
  \/ SelectExercise
  \/ CloseSearch
  \/ (~search.show /\ MoveExercise)
  \/ (~search.show /\ ClickAddSuperset)

SpecSearch == Init /\ [][NextSearch]_vars

\* C30: after Add Exercise to Superset was chosen for superset k of block b
\* and a name is selected in the search, the new exercise is last in the
\* lane of superset k of block b and the block's own lane is unchanged.
C30_SearchAddsToChosenSuperset ==
  [][ \A t \in search.addingToSuperset :
        (search.show /\ last'.op = "AddExercise") =>
          LET before == JSONCopy(workoutWithIds)
              lane == Lane(before, t.blockIdx, t.supersetIdx)
              after == Lane(workout', t.blockIdx, t.supersetIdx)
          IN  /\ last'.outcome = "emitted"
              /\ Len(after) = Len(lane) + 1
              /\ SubSeq(after, 1, Len(lane)) = lane
              /\ after[Len(after)].id \notin IdsOf(before)
              /\ Lane(workout', t.blockIdx, Undefined) = Lane(before, t.blockIdx, Undefined) ]_vars

====
